---- MODULE Spec2Model ----
(***************************************************************************)
(* The Google Drive driver of src/src/module/driver/googleDrive.js as a    *)
(* state machine: one driver instance (oAuth2Client, driveClient, _data),  *)
(* the remote drive it talks to, and the asynchronous calls running on it  *)
(* (getFileList, downloadFile, authorizeWithCode, refreshToken), each cut  *)
(* at the points where the code waits for the remote or for a retry timer. *)
(***************************************************************************)
EXTENDS Integers, Sequences, FiniteSets, TLC

\* ------------------------------------------------------------------ bounds
\* Longest chain of pages the remote drive holds for one query.
MaxPages == 3
\* Largest reading of the clock, (new Date()).getTime(), in ms after the
\* origin of the model's time axis.
MaxClock == 2

\* ------------------------------------------------------- program constants
\* retries: 3 of both pRetry calls.
Retries == 3
\* The 600000 ms added to the clock before the expiry comparison.
Skew == 600000

\* ------------------------------------------------------------ value domains
\* JavaScript's undefined / null page token; real tokens are 1, 2, ...
NoToken == 0
\* JavaScript's undefined as the value of credentials['expiry_date'].
UndefinedDate == -1
\* Messages of the errors a remote call can fail with: instances of Error
\* such as the client library throws, which p-retry retries.
ErrorMessages == {"ECONNRESET", "rateLimitExceeded"}
\* The one of them the remote fails with where all methods of the driver run
\* side by side; what a call does with errors of different messages is the
\* subject of the specifications of wrapped calls alone.
ConnectionErrors == {"ECONNRESET"}
\* Contents (ArrayBuffers) the remote can answer a files.get with.
Contents == {<<>>, <<80, 75>>, <<255>>}
\* The slots asynchronous calls run in: a call started while another one
\* waits at an await runs in the other slot.
Calls == {"a", "b"}

\* The credentials object of an OAuth2 client: absent as a whole
\* (setCredentials(undefined)) or an object whose expiry_date may be missing.
UndefinedCredentials == [defined |-> FALSE, expiry_date |-> UndefinedDate]
Token(e) == [defined |-> TRUE, expiry_date |-> e]
\* new google.auth.OAuth2(...) starts with credentials = {}.
EmptyCredentials == Token(UndefinedDate)
\* Readings of the clock.
Clock == 0..MaxClock
ExpiryDates == {UndefinedDate, Skew + 1}
Tokens == {Token(e) : e \in ExpiryDates}

\* data.oAuth as passed to the constructor, authorizeWithCode, refreshToken:
\* missing, or an object whose token is missing or present.
NoOAuth == [present |-> FALSE, token |-> UndefinedCredentials]
OAuth(t) == [present |-> TRUE, token |-> t]
OAuthInputs == {NoOAuth} \cup {OAuth(t) : t \in Tokens \cup {UndefinedCredentials}}
\* data.oAuth as passed to authorizeWithCode: missing, or an object with the
\* code to exchange (it carries no token yet).
CodeInputs == {NoOAuth, OAuth(UndefinedCredentials)}

UndefinedClient == [defined |-> FALSE, credentials |-> UndefinedCredentials]
NewOAuth2 == [defined |-> TRUE, credentials |-> EmptyCredentials]
\* Variant: the token is not stored in the client.
setCredentialsDropped(client, token) == client
setCredentials(client, token) == [client EXCEPT !.credentials = token]

\* Chains of pages of the remote drive: chain[i] is the number of files of
\* page i; page i carries nextPageToken i unless it is the last. The drive
\* holds one chain of each length, whose pages hold 2, 1, 0, 2, ... files:
\* several files, one, none.
PageSize(i) == (2 * i) % 3
Chains == {[i \in 1..k |-> PageSize(i)] : k \in 1..MaxPages}
File(i, j) == 10 * i + j
FilesOf(chain, i) == [j \in 1..chain[i] |-> File(i, j)]

NoResult == [kind |-> "none", value |-> <<>>, error |-> ""]
UndefinedResult == [kind |-> "undefined", value |-> <<>>, error |-> ""]
Value(v) == [kind |-> "value", value |-> v, error |-> ""]
Thrown(e) == [kind |-> "error", value |-> <<>>, error |-> e]

VARIABLES
    \* the driver instance
    oAuth2Client,   \* this.oAuth2Client
    driveClient,    \* this.driveClient: "undefined", or the value of
                    \* this.oAuth2Client it was built with
    _data,          \* this._data
    \* the remote drive
    chain,          \* the pages the remote holds for the query
    \* the calls, per slot
    op,             \* the method running in the slot
    pc,             \* where it stands
    full,           \* getFileList: full
    pageToken,      \* getFileList: pageToken
    params,         \* getFileList: params.pageToken of the current iteration
    data,           \* getFileList: data
    counter,        \* getFileList: counter
    attemptNumber,  \* p-retry: number of the current attempt
    errors,         \* p-retry: errors of the failed attempts of the operation
    lastError,      \* the error the pending failed attempt threw
    events,         \* the onFailedAttempt calls of the current pRetry
    expiry_date,    \* refreshToken: expiry_date
    now,            \* refreshToken: the clock reading of line 102
    result,         \* what the call resolved or rejected with
    \* history
    invoked,        \* remote invocations made by the current wrapped call
    failed,         \* failed attempts of the current wrapped call
    fetched,        \* successful remote answers received by the call
    received,       \* their contents, concatenated in order of arrival
    requests,       \* remote invocations made by the call, all pages together
    bound           \* a getToken or a refreshAccessToken has succeeded and
                    \* its token is the client's credentials

driver == <<oAuth2Client, driveClient, _data, bound>>
listing == <<full, pageToken, params, data, counter>>
retry == <<attemptNumber, errors, lastError, events, invoked, failed>>
history == <<fetched, received>>
clock == <<expiry_date, now>>
vars == <<oAuth2Client, driveClient, _data, chain, op, pc, full, pageToken,
          params, data, counter, attemptNumber, errors, lastError, events,
          expiry_date, now, result, invoked, failed, fetched, received, requests,
          bound>>

\* ------------------------------------------------------------- constructor
\* constructor(id, data): the driver built from data.oAuth and data.drive.
Constructor(oAuth, drive) ==
    LET client == IF oAuth.present
                  THEN setCredentials(NewOAuth2, oAuth.token)
                  ELSE UndefinedClient
    IN  /\ oAuth2Client = client
        /\ driveClient = IF drive
                         THEN (IF client.defined THEN "auth_client"
                                                 ELSE "auth_undefined")
                         ELSE "undefined"
        /\ _data = [oAuth |-> oAuth, drive |-> drive]

Init ==
    /\ \E oAuth \in OAuthInputs, drive \in BOOLEAN : Constructor(oAuth, drive)
    /\ chain \in Chains
    /\ op = [p \in Calls |-> "none"]
    /\ pc = [p \in Calls |-> "idle"]
    /\ full = [p \in Calls |-> FALSE]
    /\ pageToken = [p \in Calls |-> NoToken]
    /\ params = [p \in Calls |-> NoToken]
    /\ data = [p \in Calls |-> <<>>]
    /\ counter = [p \in Calls |-> 0]
    /\ attemptNumber = [p \in Calls |-> 0]
    /\ errors = [p \in Calls |-> <<>>]
    /\ lastError = [p \in Calls |-> ""]
    /\ events = [p \in Calls |-> <<>>]
    /\ expiry_date = [p \in Calls |-> UndefinedDate]
    /\ now = [p \in Calls |-> 0]
    /\ result = [p \in Calls |-> NoResult]
    /\ invoked = [p \in Calls |-> 0]
    /\ failed = [p \in Calls |-> 0]
    /\ fetched = [p \in Calls |-> 0]
    /\ received = [p \in Calls |-> <<>>]
    /\ requests = [p \in Calls |-> 0]
    /\ bound = FALSE

\* --------------------------------------------------------------- helpers
\* Variant: only the auth client is looked at.
checkAuthClientOnly == oAuth2Client.defined

\* checkAuthorizationStatus(): both clients are set.
checkAuthorizationStatus ==
    ~(~oAuth2Client.defined \/ driveClient = "undefined")

\* What the remote answers to files.list(params): the page after the token.
RemoteList(token) ==
    [files |-> FilesOf(chain, token + 1),
     nextPageToken |-> IF token + 1 < Len(chain) THEN token + 1 ELSE NoToken]

\* Variant: the next page is followed whatever full says.
NextPageTokenAlways(res, f) == res.nextPageToken

\* if (res.nextPageToken && full) pageToken = res.nextPageToken;
\* else pageToken = null;
NextPageToken(res, f) ==
    IF res.nextPageToken # NoToken /\ f THEN res.nextPageToken ELSE NoToken

\* Variant: the new page is put in front of the pages collected so far.
ConcatInFront(d, files) == files \o d

\* Variant: the files are collected in a field of the driver, which all its
\* calls append to, instead of a local of the call.
ConcatShared(d, files) ==
    LET longest == CHOOSE q \in Calls :
                       \A r \in Calls : Len(data[q]) >= Len(data[r])
    IN  data[longest] \o files

\* data = data.concat(res.files)
Concat(d, files) == d \o files

\* Variant: the token of the page just received is never put in params.
ParamsWithoutToken(token) == NoToken

\* if (pageToken) params.pageToken = pageToken;
Params(token) == token

\* Variant: the first attempt is counted as a retry.
RetriesLeftCountingFirst(n) == Retries - n

\* p-retry: error.retriesLeft = retries - (attemptNumber - 1).
RetriesLeft(n) == Retries - (n - 1)

\* Variant: retries counts the attempts, the first one included.
ShouldRetryCountingFirst(n) == n < Retries

\* Variant: the operation is retried without limit.
ShouldRetryForever(n) == TRUE

\* retry's operation.retry(error): another attempt is scheduled while a
\* timeout of the retries remains.
ShouldRetry(n) == n <= Retries

\* retry's operation.mainError(): the error whose message occurred most
\* often among the failed attempts, the later one on a tie.
Count(es, m) == Cardinality({i \in DOMAIN es : es[i] = m})
RECURSIVE MainErrorIndex(_, _, _, _)
MainErrorIndex(es, i, best, bestCount) ==
    IF i > Len(es) THEN best
    ELSE LET c == Cardinality({j \in 1..i : es[j] = es[i]})
         IN  IF c >= bestCount THEN MainErrorIndex(es, i + 1, i, c)
                               ELSE MainErrorIndex(es, i + 1, best, bestCount)
\* Variant: the promise rejects with the error of the last attempt.
mainErrorLatest(es) == es[Len(es)]

mainError(es) == es[MainErrorIndex(es, 1, 0, 0)]

\* Variant: getFileList catches the error and returns what it has collected.
RejectSwallowed(p, es) == Value(data[p])

\* p-retry rejects with operation.mainError(); neither getFileList nor
\* downloadFile catches it, so the call of slot p rejects with it.
Reject(p, es) == Thrown(mainError(es))

\* Variant: the failure of the last attempt is reported as the rejection
\* only, without a call of onFailedAttempt.
EmitUnlessLast(evs, n) ==
    IF n > Retries THEN evs
    ELSE Append(evs, [attemptNumber |-> n, retriesLeft |-> Retries - (n - 1)])

\* onFailedAttempt is called with the error of attempt n, which carries
\* attemptNumber and retriesLeft; the callback logs them.
Emit(evs, n) ==
    Append(evs, [attemptNumber |-> n, retriesLeft |-> RetriesLeft(n)])

\* Variant: the buffer is decoded as 7-bit text.
BufferFromAscii(d) == [i \in 1..Len(d) |-> d[i] % 128]

\* Buffer.from(res.data, 'binary'): the bytes of the array buffer.
BufferFrom(d) == [i \in 1..Len(d) |-> d[i] % 256]

\* Variant: one retry operation serves the whole listing, so the attempts of
\* a page go on counting from those of the pages before it.
StartRetryShared(p) ==
    /\ attemptNumber' = [attemptNumber EXCEPT ![p] = @ + 1]
    /\ errors' = errors
    /\ lastError' = [lastError EXCEPT ![p] = ""]
    /\ events' = [events EXCEPT ![p] = <<>>]
    /\ invoked' = [invoked EXCEPT ![p] = 1]
    /\ failed' = [failed EXCEPT ![p] = 0]

\* A new pRetry(...) call: its first attempt runs at once.
StartRetry(p) ==
    /\ attemptNumber' = [attemptNumber EXCEPT ![p] = 1]
    /\ errors' = [errors EXCEPT ![p] = <<>>]
    /\ lastError' = [lastError EXCEPT ![p] = ""]
    /\ events' = [events EXCEPT ![p] = <<>>]
    /\ invoked' = [invoked EXCEPT ![p] = 1]
    /\ failed' = [failed EXCEPT ![p] = 0]

\* ------------------------------------------------------------- getFileList
\* getFileList(q, fields, full, orderBy) up to its first await: the
\* authorization check, then the first iteration's request.
getFileList(p, f) ==
    /\ pc[p] = "idle"
    /\ op' = [op EXCEPT ![p] = "getFileList"]
    /\ full' = [full EXCEPT ![p] = f]
    /\ IF ~checkAuthorizationStatus
       THEN /\ pc' = [pc EXCEPT ![p] = "resolved"]
            /\ result' = [result EXCEPT ![p] = UndefinedResult]
            /\ UNCHANGED <<pageToken, params, data, counter, retry, requests>>
       ELSE /\ data' = [data EXCEPT ![p] = <<>>]
            /\ pageToken' = [pageToken EXCEPT ![p] = NoToken]
            /\ counter' = [counter EXCEPT ![p] = 1]
            /\ params' = [params EXCEPT ![p] = Params(NoToken)]
            /\ StartRetry(p)
            /\ requests' = [requests EXCEPT ![p] = 1]
            /\ pc' = [pc EXCEPT ![p] = "inflight"]
            /\ UNCHANGED result
    /\ UNCHANGED <<driver, chain, clock, history>>

\* files.list resolves: the rest of the loop body, and either the next
\* iteration's request or the return of data.
ListPageOk(p) ==
    /\ pc[p] = "inflight"
    /\ op[p] = "getFileList"
    /\ params[p] + 1 \in DOMAIN chain
    /\ LET res == RemoteList(params[p])
           token == NextPageToken(res, full[p])
           all == Concat(data[p], res.files)
       IN  /\ pageToken' = [pageToken EXCEPT ![p] = token]
           /\ data' = [data EXCEPT ![p] = all]
           /\ counter' = [counter EXCEPT ![p] = @ + 1]
           /\ fetched' = [fetched EXCEPT ![p] = @ + 1]
           /\ received' = [received EXCEPT ![p] = @ \o res.files]
           /\ IF token # NoToken
              THEN /\ params' = [params EXCEPT ![p] = Params(token)]
                   /\ StartRetry(p)
                   /\ requests' = [requests EXCEPT ![p] = @ + 1]
                   /\ UNCHANGED <<pc, result>>
              ELSE /\ pc' = [pc EXCEPT ![p] = "resolved"]
                   /\ result' = [result EXCEPT ![p] = Value(all)]
                   /\ UNCHANGED <<params, retry, requests>>
    /\ UNCHANGED <<driver, chain, op, full, clock>>

\* ------------------------------------------------------------ downloadFile
\* Variant: a driver that has an auth client but no drive client builds the
\* drive client on its first download.
downloadFileBuildingClient(p) ==
    /\ pc[p] = "idle"
    /\ op' = [op EXCEPT ![p] = "downloadFile"]
    /\ driveClient' = IF oAuth2Client.defined /\ driveClient = "undefined"
                      THEN "auth_client" ELSE driveClient
    /\ IF ~oAuth2Client.defined
       THEN /\ pc' = [pc EXCEPT ![p] = "resolved"]
            /\ result' = [result EXCEPT ![p] = UndefinedResult]
            /\ UNCHANGED <<retry, requests>>
       ELSE /\ StartRetry(p)
            /\ requests' = [requests EXCEPT ![p] = 1]
            /\ pc' = [pc EXCEPT ![p] = "inflight"]
            /\ UNCHANGED result
    /\ UNCHANGED <<oAuth2Client, _data, bound, chain, listing, clock, history>>

\* downloadFile(fileId) up to its await: the authorization check, then the
\* first files.get.
downloadFile(p) ==
    /\ pc[p] = "idle"
    /\ op' = [op EXCEPT ![p] = "downloadFile"]
    /\ IF ~checkAuthorizationStatus
       THEN /\ pc' = [pc EXCEPT ![p] = "resolved"]
            /\ result' = [result EXCEPT ![p] = UndefinedResult]
            /\ UNCHANGED <<retry, requests>>
       ELSE /\ StartRetry(p)
            /\ requests' = [requests EXCEPT ![p] = 1]
            /\ pc' = [pc EXCEPT ![p] = "inflight"]
            /\ UNCHANGED result
    /\ UNCHANGED <<driver, chain, listing, clock, history>>

\* files.get resolves with an array buffer: the buffer built from it is
\* returned.
DownloadOk(p, content) ==
    /\ pc[p] = "inflight"
    /\ op[p] = "downloadFile"
    /\ fetched' = [fetched EXCEPT ![p] = @ + 1]
    /\ received' = [received EXCEPT ![p] = content]
    /\ result' = [result EXCEPT ![p] = Value(BufferFrom(content))]
    /\ pc' = [pc EXCEPT ![p] = "resolved"]
    /\ UNCHANGED <<driver, chain, op, listing, retry, clock>>
    /\ UNCHANGED requests

\* ------------------------------------------------------------------ pRetry
\* The remote call of the current attempt rejects with an error.
AttemptFails(p, e) ==
    /\ pc[p] = "inflight"
    /\ op[p] \in {"getFileList", "downloadFile"}
    /\ lastError' = [lastError EXCEPT ![p] = e]
    /\ failed' = [failed EXCEPT ![p] = @ + 1]
    /\ pc' = [pc EXCEPT ![p] = "failed"]
    /\ UNCHANGED <<driver, chain, op, listing, attemptNumber, errors, events,
                   invoked, clock, result, history>>
    /\ UNCHANGED requests

\* p-retry's catch block: the error gets attemptNumber and retriesLeft,
\* onFailedAttempt logs it, and operation.retry either arms the timer of the
\* next attempt or the promise rejects with operation.mainError().
onFailedAttempt(p) ==
    /\ pc[p] = "failed"
    /\ LET n == attemptNumber[p]
           es == Append(errors[p], lastError[p])
       IN  /\ events' = [events EXCEPT ![p] = Emit(@, n)]
           /\ errors' = [errors EXCEPT ![p] = es]
           /\ IF ShouldRetry(n)
              THEN /\ pc' = [pc EXCEPT ![p] = "backoff"]
                   /\ UNCHANGED result
              ELSE /\ pc' = [pc EXCEPT ![p] = "rejected"]
                   /\ result' = [result EXCEPT ![p] = Reject(p, es)]
    /\ UNCHANGED <<driver, chain, op, listing, attemptNumber, lastError,
                   invoked, failed, clock, history>>
    /\ UNCHANGED requests

\* The retry timer fires: the operation is invoked again.
RetryAttempt(p) ==
    /\ pc[p] = "backoff"
    /\ attemptNumber' = [attemptNumber EXCEPT ![p] = @ + 1]
    /\ invoked' = [invoked EXCEPT ![p] = @ + 1]
    /\ requests' = [requests EXCEPT ![p] = @ + 1]
    /\ pc' = [pc EXCEPT ![p] = "inflight"]
    /\ UNCHANGED <<driver, chain, op, listing, errors, lastError, events,
                   failed, clock, result, history>>

\* ------------------------------------------------------- authorizeWithCode
\* authorizeWithCode(data) up to the getToken call, oAuth being data.oAuth:
\* the client is created when the driver has none, then the code is sent
\* for exchange. Without data.oAuth the destructuring of line 48 (no client
\* yet) or data.code of line 59 (inside the promise) throws a TypeError:
\* the call rejects, no client is created and getToken is not called.
authorizeWithCode(p, oAuth) ==
    /\ pc[p] = "idle"
    /\ op' = [op EXCEPT ![p] = "authorizeWithCode"]
    /\ IF ~oAuth.present
       THEN /\ pc' = [pc EXCEPT ![p] = "rejected"]
            /\ result' = [result EXCEPT ![p] = Thrown("TypeError")]
            /\ UNCHANGED <<oAuth2Client, invoked, requests>>
       ELSE /\ oAuth2Client' = IF ~oAuth2Client.defined THEN NewOAuth2
                                                        ELSE oAuth2Client
            /\ invoked' = [invoked EXCEPT ![p] = 1]
            /\ requests' = [requests EXCEPT ![p] = 1]
            /\ pc' = [pc EXCEPT ![p] = "inflight"]
            /\ UNCHANGED result
    /\ UNCHANGED <<driveClient, _data, bound, chain, listing, attemptNumber,
                   errors, lastError, events, failed, clock, history>>

\* getToken calls back with a token: it becomes the client's credentials and
\* the promise resolves with the configuration.
GetTokenOk(p, token) ==
    /\ pc[p] = "inflight"
    /\ op[p] = "authorizeWithCode"
    /\ oAuth2Client' = setCredentials(oAuth2Client, token)
    /\ bound' = TRUE
    /\ fetched' = [fetched EXCEPT ![p] = @ + 1]
    /\ received' = [received EXCEPT ![p] = <<token.expiry_date>>]
    /\ result' = [result EXCEPT ![p] = Value(<<token.expiry_date>>)]
    /\ pc' = [pc EXCEPT ![p] = "resolved"]
    /\ UNCHANGED <<driveClient, _data, chain, op, listing, retry, clock>>
    /\ UNCHANGED requests

\* getToken calls back with an error: the promise rejects.
GetTokenError(p) ==
    /\ pc[p] = "inflight"
    /\ op[p] = "authorizeWithCode"
    /\ failed' = [failed EXCEPT ![p] = @ + 1]
    /\ result' = [result EXCEPT ![p] = Thrown("Error retrieving access token")]
    /\ pc' = [pc EXCEPT ![p] = "rejected"]
    /\ UNCHANGED <<driver, chain, op, listing, attemptNumber, errors,
                   lastError, events, invoked, clock, history>>
    /\ UNCHANGED requests

\* ------------------------------------------------------------ refreshToken
\* a < b of JavaScript for a number a and an expiry date b that may be
\* undefined: a comparison with undefined is false.
LessThan(a, b) == b # UndefinedDate /\ a < b

\* Variant: a token expiring exactly at the end of the window is kept.
NotExpiringInclusive(t, expiry) ==
    expiry # UndefinedDate /\ t + Skew <= expiry

\* ((new Date()).getTime() + 600000) < expiry_date
NotExpiring(t, expiry) == LessThan(t + Skew, expiry)

\* Variant: a refresh is skipped while another one is in flight.
refreshTokenLocked(p, given, oAuth, t) ==
    /\ pc[p] = "idle"
    /\ op' = [op EXCEPT ![p] = "refreshToken"]
    /\ LET d == IF given THEN oAuth ELSE _data.oAuth
           client == IF oAuth2Client.defined THEN oAuth2Client
                     ELSE setCredentials(NewOAuth2, d.token)
       IN  IF ~oAuth2Client.defined /\ ~d.present
           THEN \* the destructuring of an undefined data throws
                /\ pc' = [pc EXCEPT ![p] = "rejected"]
                /\ result' = [result EXCEPT ![p] = Thrown("TypeError")]
                /\ UNCHANGED <<oAuth2Client, clock, invoked, requests>>
           ELSE /\ oAuth2Client' = client
                /\ IF ~client.credentials.defined
                   THEN \* credentials['expiry_date'] of undefined throws
                        /\ pc' = [pc EXCEPT ![p] = "rejected"]
                        /\ result' = [result EXCEPT ![p] = Thrown("TypeError")]
                        /\ UNCHANGED <<clock, invoked, requests>>
                   ELSE /\ expiry_date' = [expiry_date EXCEPT ![p] =
                                               client.credentials.expiry_date]
                        /\ now' = [now EXCEPT ![p] = t]
                        /\ IF \/ NotExpiring(t, client.credentials.expiry_date)
                              \/ \E q \in Calls \ {p} :
                                    op[q] = "refreshToken" /\ pc[q] = "inflight"
                           THEN /\ pc' = [pc EXCEPT ![p] = "resolved"]
                                /\ result' = [result EXCEPT ![p] = UndefinedResult]
                                /\ UNCHANGED <<invoked, requests>>
                           ELSE /\ pc' = [pc EXCEPT ![p] = "inflight"]
                                /\ invoked' = [invoked EXCEPT ![p] = 1]
                                /\ requests' = [requests EXCEPT ![p] = 1]
                                /\ UNCHANGED result
    /\ UNCHANGED <<driveClient, _data, bound, chain, listing, attemptNumber,
                   errors, lastError, events, failed, history>>

\* refreshToken(data) up to the refreshAccessToken call, with the clock
\* reading t. given: data was passed; oAuth: its data.oAuth.
refreshToken(p, given, oAuth, t) ==
    /\ pc[p] = "idle"
    /\ op' = [op EXCEPT ![p] = "refreshToken"]
    /\ LET d == IF given THEN oAuth ELSE _data.oAuth
           client == IF oAuth2Client.defined THEN oAuth2Client
                     ELSE setCredentials(NewOAuth2, d.token)
       IN  IF ~oAuth2Client.defined /\ ~d.present
           THEN \* the destructuring of an undefined data throws
                /\ pc' = [pc EXCEPT ![p] = "rejected"]
                /\ result' = [result EXCEPT ![p] = Thrown("TypeError")]
                /\ UNCHANGED <<oAuth2Client, clock, invoked, requests>>
           ELSE /\ oAuth2Client' = client
                /\ IF ~client.credentials.defined
                   THEN \* credentials['expiry_date'] of undefined throws
                        /\ pc' = [pc EXCEPT ![p] = "rejected"]
                        /\ result' = [result EXCEPT ![p] = Thrown("TypeError")]
                        /\ UNCHANGED <<clock, invoked, requests>>
                   ELSE /\ expiry_date' = [expiry_date EXCEPT ![p] =
                                               client.credentials.expiry_date]
                        /\ now' = [now EXCEPT ![p] = t]
                        /\ IF NotExpiring(t, client.credentials.expiry_date)
                           THEN /\ pc' = [pc EXCEPT ![p] = "resolved"]
                                /\ result' = [result EXCEPT ![p] = UndefinedResult]
                                /\ UNCHANGED <<invoked, requests>>
                           ELSE /\ pc' = [pc EXCEPT ![p] = "inflight"]
                                /\ invoked' = [invoked EXCEPT ![p] = 1]
                                /\ requests' = [requests EXCEPT ![p] = 1]
                                /\ UNCHANGED result
    /\ UNCHANGED <<driveClient, _data, bound, chain, listing, attemptNumber,
                   errors, lastError, events, failed, history>>

\* refreshAccessToken calls back with a token: the client library has made
\* it the client's credentials before it calls back, and the promise
\* resolves with it.
RefreshOk(p, token) ==
    /\ pc[p] = "inflight"
    /\ op[p] = "refreshToken"
    /\ oAuth2Client' = setCredentials(oAuth2Client, token)
    /\ bound' = TRUE
    /\ fetched' = [fetched EXCEPT ![p] = @ + 1]
    /\ received' = [received EXCEPT ![p] = <<token.expiry_date>>]
    /\ result' = [result EXCEPT ![p] = Value(<<token.expiry_date>>)]
    /\ pc' = [pc EXCEPT ![p] = "resolved"]
    /\ UNCHANGED <<driveClient, _data, chain, op, listing, retry, clock>>
    /\ UNCHANGED requests

\* refreshAccessToken calls back with an error: the promise rejects.
RefreshError(p) ==
    /\ pc[p] = "inflight"
    /\ op[p] = "refreshToken"
    /\ failed' = [failed EXCEPT ![p] = @ + 1]
    /\ result' = [result EXCEPT ![p] = Thrown("Error refreshing access token")]
    /\ pc' = [pc EXCEPT ![p] = "rejected"]
    /\ UNCHANGED <<driver, chain, op, listing, attemptNumber, errors,
                   lastError, events, invoked, clock, history>>
    /\ UNCHANGED requests

\* The caller has taken the outcome of the call; the slot is free again.
Return(p) ==
    /\ pc[p] \in {"resolved", "rejected"}
    /\ op' = [op EXCEPT ![p] = "none"]
    /\ pc' = [pc EXCEPT ![p] = "idle"]
    /\ full' = [full EXCEPT ![p] = FALSE]
    /\ pageToken' = [pageToken EXCEPT ![p] = NoToken]
    /\ params' = [params EXCEPT ![p] = NoToken]
    /\ data' = [data EXCEPT ![p] = <<>>]
    /\ counter' = [counter EXCEPT ![p] = 0]
    /\ attemptNumber' = [attemptNumber EXCEPT ![p] = 0]
    /\ errors' = [errors EXCEPT ![p] = <<>>]
    /\ lastError' = [lastError EXCEPT ![p] = ""]
    /\ events' = [events EXCEPT ![p] = <<>>]
    /\ expiry_date' = [expiry_date EXCEPT ![p] = UndefinedDate]
    /\ now' = [now EXCEPT ![p] = 0]
    /\ result' = [result EXCEPT ![p] = NoResult]
    /\ invoked' = [invoked EXCEPT ![p] = 0]
    /\ failed' = [failed EXCEPT ![p] = 0]
    /\ fetched' = [fetched EXCEPT ![p] = 0]
    /\ received' = [received EXCEPT ![p] = <<>>]
    /\ requests' = [requests EXCEPT ![p] = 0]
    /\ UNCHANGED <<driver, chain>>

\* Any method may be called while another call waits at its await: the
\* driver keeps no caller from starting a second call.
Next ==
    \E p \in Calls :
        \/ \E f \in BOOLEAN : getFileList(p, f)
        \/ ListPageOk(p)
        \/ downloadFile(p)
        \/ \E content \in Contents : DownloadOk(p, content)
        \/ \E e \in ConnectionErrors : AttemptFails(p, e)
        \/ onFailedAttempt(p)
        \/ RetryAttempt(p)
        \/ \E oAuth \in CodeInputs : authorizeWithCode(p, oAuth)
        \/ \E token \in Tokens : GetTokenOk(p, token)
        \/ GetTokenError(p)
        \/ \E given \in BOOLEAN :
               \E oAuth \in (IF given THEN OAuthInputs ELSE {NoOAuth}),
                  t \in Clock : refreshToken(p, given, oAuth, t)
        \/ \E token \in Tokens : RefreshOk(p, token)
        \/ RefreshError(p)
        \/ Return(p)

Spec == Init /\ [][Next]_vars

\* authorizeWithCode and refreshToken calls that may overlap on one driver:
\* nothing in the driver keeps a second call from starting while the first
\* waits for its callback. The drive plays no part and holds one page.
AuthInit ==
    /\ Init
    /\ Len(chain) = 1

AuthNext ==
    \E p \in Calls :
        \/ \E oAuth \in CodeInputs : authorizeWithCode(p, oAuth)
        \/ \E token \in Tokens : GetTokenOk(p, token)
        \/ GetTokenError(p)
        \/ \E given \in BOOLEAN :
               \E oAuth \in (IF given THEN OAuthInputs ELSE {NoOAuth}),
                  t \in Clock : refreshToken(p, given, oAuth, t)
        \/ \E token \in Tokens : RefreshOk(p, token)
        \/ RefreshError(p)
        \/ Return(p)

AuthSpec == AuthInit /\ [][AuthNext]_vars

\* getFileList and downloadFile calls that may overlap on one driver
\* constructed with a token and a drive, on a drive of two pages: each call
\* is suspended at its await while the other runs, and every attempt may
\* fail with any of the error messages.
OverlapInit ==
    /\ Init
    /\ _data = [oAuth |-> OAuth(Token(Skew + 1)), drive |-> TRUE]
    /\ Len(chain) = 2

OverlapNext ==
    \E p \in Calls :
        \/ \E f \in BOOLEAN : getFileList(p, f)
        \/ ListPageOk(p)
        \/ downloadFile(p)
        \/ \E content \in Contents : DownloadOk(p, content)
        \/ \E e \in ErrorMessages : AttemptFails(p, e)
        \/ onFailedAttempt(p)
        \/ RetryAttempt(p)
        \/ Return(p)

OverlapSpec == OverlapInit /\ [][OverlapNext]_vars

\* The same calls when the remote answers every request (with a page, a
\* content or an error), p-retry's handler runs after every failure and its
\* timers fire.
ListFairness ==
    \A p \in Calls :
        /\ WF_vars(\/ ListPageOk(p)
                   \/ \E content \in Contents : DownloadOk(p, content)
                   \/ \E e \in ErrorMessages : AttemptFails(p, e))
        /\ WF_vars(onFailedAttempt(p))
        /\ WF_vars(RetryAttempt(p))

ListSpec == OverlapSpec /\ ListFairness

\* ================================================================ properties
Wrapped(p) == op[p] \in {"getFileList", "downloadFile"}

\* The files of the first k pages of a chain, in page order.
RECURSIVE Pages(_, _)
Pages(c, k) == IF k = 0 THEN <<>> ELSE Pages(c, k - 1) \o FilesOf(c, k)

\* C1 as stated: a wrapped call (a page fetch of getFileList, the fetch of
\* downloadFile) whose remote operation fails on every attempt invokes it
\* exactly 3 times before it fails, and never a 4th time.
C1_ThreeAttempts ==
    \A p \in Calls : Wrapped(p) =>
        /\ invoked[p] <= 3
        /\ pc[p] = "rejected" => invoked[p] = 3

\* C1 amended: with retries: 3 a wrapped call whose remote operation fails on
\* every attempt invokes it exactly 4 times (the first attempt and 3 retries)
\* before it fails, and never a 5th time.
C1_FourAttempts ==
    \A p \in Calls : Wrapped(p) =>
        /\ invoked[p] <= 4
        /\ pc[p] = "rejected" => invoked[p] = 4 /\ failed[p] = 4

C1_Witness ==
    \E p \in Calls :
        Wrapped(p) /\ pc[p] = "rejected" /\ invoked[p] = 4 /\ failed[p] = 4

\* C2: a downloadFile on an authorized driver whose files.get fails on
\* attempts 1..k-1 and succeeds on attempt k returns exactly the bytes of
\* attempt k, after exactly k-1 failure events, and makes no remote call
\* after the success.
C2_FetchReturnsBytes ==
    \A p \in Calls :
        (op[p] = "downloadFile" /\ pc[p] = "resolved"
            /\ result[p].kind # "undefined") =>
            /\ result[p] = Value(received[p])
            /\ fetched[p] = 1
            /\ Len(events[p]) = invoked[p] - 1
            /\ failed[p] = invoked[p] - 1
            /\ invoked[p] = attemptNumber[p]

C2_Witness ==
    \E p \in Calls :
        /\ op[p] = "downloadFile" /\ pc[p] = "resolved"
        /\ invoked[p] = 3 /\ Len(events[p]) = 2
        /\ result[p] = Value(<<255>>)

\* C3: a getFileList with full = false on an authorized driver requests the
\* first page only, ends as soon as that page has been fetched, and returns
\* that page's files, whether or not the page carries a nextPageToken.
C3_SinglePage ==
    \A p \in Calls :
        (op[p] = "getFileList" /\ ~full[p] /\ result[p].kind # "undefined") =>
            /\ params[p] = NoToken
            /\ fetched[p] <= 1
            /\ fetched[p] = 1 <=> pc[p] = "resolved"
            /\ pc[p] = "resolved" => result[p] = Value(FilesOf(chain, 1))

C3_Witness ==
    \E p \in Calls :
        /\ op[p] = "getFileList" /\ ~full[p] /\ pc[p] = "resolved"
        /\ Len(chain) > 1 /\ fetched[p] = 1
        /\ result[p] = Value(<<File(1, 1), File(1, 2)>>)

\* C4: a getFileList with full = true on an authorized driver that returns
\* has fetched every page of the remote chain once and returns the files of
\* pages 1..k concatenated in that order, also when fetches were retried.
C4_Concatenation ==
    \A p \in Calls :
        (op[p] = "getFileList" /\ full[p] /\ pc[p] = "resolved"
            /\ result[p].kind # "undefined") =>
            /\ fetched[p] = Len(chain)
            /\ result[p] = Value(Pages(chain, Len(chain)))

C4_Witness ==
    \E p \in Calls :
        /\ op[p] = "getFileList" /\ full[p] /\ pc[p] = "resolved"
        /\ chain = <<2, 1, 0>> /\ failed[p] > 0
        /\ result[p] = Value(<<File(1, 1), File(1, 2), File(2, 1)>>)

\* C5: a getFileList or downloadFile made while checkAuthorizationStatus()
\* is false returns undefined at once: no files.list, no files.get, no
\* attempt and no failure event.
C5_NoCallUnauthorized ==
    \A p \in Calls :
        (Wrapped(p) /\ (~oAuth2Client.defined \/ driveClient = "undefined")) =>
            /\ pc[p] = "resolved"
            /\ result[p] = UndefinedResult
            /\ invoked[p] = 0 /\ failed[p] = 0 /\ fetched[p] = 0
            /\ attemptNumber[p] = 0 /\ events[p] = <<>>

C5_Witness ==
    \E p \in Calls :
        /\ op[p] = "downloadFile" /\ pc[p] = "resolved"
        /\ oAuth2Client.defined /\ driveClient = "undefined"
        /\ invoked[p] = 0

\* C6 as stated: once an authorizeWithCode has resolved,
\* checkAuthorizationStatus() is true, however the driver was constructed.
C6_AuthorizedAfterBinding ==
    \A p \in Calls :
        (op[p] = "authorizeWithCode" /\ pc[p] = "resolved") =>
            checkAuthorizationStatus

\* C7 as stated: on a driver constructed without a token,
\* checkAuthorizationStatus() is false as long as no getToken has succeeded.
C7_UnauthorizedBeforeBinding ==
    (~_data.oAuth.token.defined /\ ~bound) => ~checkAuthorizationStatus

\* C8: a refreshToken that reaches the expiry check calls
\* refreshAccessToken not at all when now + 600000 < expiry_date, and exactly
\* once otherwise (also at the edge of the window and when expiry_date is
\* undefined); a failed refresh is not retried.
C8_RefreshOnceOrNever ==
    \A p \in Calls :
        (op[p] = "refreshToken" /\ result[p].error # "TypeError") =>
            IF expiry_date[p] # UndefinedDate
                /\ now[p] + 600000 < expiry_date[p]
            THEN invoked[p] = 0 /\ pc[p] = "resolved"
                 /\ result[p] = UndefinedResult
            ELSE /\ invoked[p] = 1
                 /\ fetched[p] + failed[p] =
                        (IF pc[p] = "inflight" THEN 0 ELSE 1)
                 /\ pc[p] = "rejected" <=> failed[p] = 1

C8_Witness ==
    \E p \in Calls :
        /\ op[p] = "refreshToken" /\ pc[p] = "rejected"
        /\ now[p] + 600000 = expiry_date[p]
        /\ invoked[p] = 1

\* C9: when the fetch of page i of a getFileList fails on all its attempts,
\* the call rejects with that error: the files of pages 1..i-1 are not
\* returned, and the last request issued is the one of page i.
C9_ListingAborts ==
    \A p \in Calls :
        (op[p] = "getFileList" /\ pc[p] = "rejected") =>
            /\ result[p].kind = "error"
            /\ result[p].value = <<>>
            /\ \E i \in DOMAIN errors[p] : result[p].error = errors[p][i]
            /\ params[p] = fetched[p]
            /\ counter[p] = fetched[p] + 1

C9_Witness ==
    \E p \in Calls :
        /\ op[p] = "getFileList" /\ pc[p] = "rejected"
        /\ fetched[p] = 2 /\ data[p] # <<>> /\ Len(chain) = 3

\* C10: within one wrapped call every failed attempt has produced exactly
\* one onFailedAttempt call by the time the next attempt starts or the
\* failure reaches the caller, and a successful attempt produces none.
C10_OneEventPerFailure ==
    \A p \in Calls : Wrapped(p) =>
        /\ pc[p] = "failed" => Len(events[p]) = failed[p] - 1
        /\ pc[p] \in {"backoff", "inflight", "rejected"} =>
               Len(events[p]) = failed[p]
        /\ (pc[p] = "resolved" /\ result[p].kind # "undefined") =>
               Len(events[p]) = failed[p] /\ failed[p] = invoked[p] - 1

C10_Witness ==
    \E p \in Calls :
        Wrapped(p) /\ pc[p] = "rejected" /\ Len(events[p]) = 4

\* C11: the failure events of one wrapped call report attemptNumber 1, 2,
\* 3, ... in order of emission, retriesLeft goes down by exactly 1 from each
\* event to the next and is never negative, and the event of the last
\* permitted attempt reports retriesLeft = 0.
C11_EventNumbers ==
    \A p \in Calls : Wrapped(p) =>
        /\ \A i \in DOMAIN events[p] :
              /\ events[p][i].attemptNumber = i
              /\ events[p][i].retriesLeft >= 0
              /\ i > 1 => events[p][i].retriesLeft =
                              events[p][i - 1].retriesLeft - 1
        /\ pc[p] = "rejected" =>
              /\ events[p] # <<>>
              /\ events[p][Len(events[p])].retriesLeft = 0

C11_Witness ==
    \E p \in Calls :
        /\ Wrapped(p) /\ pc[p] = "rejected"
        /\ Len(events[p]) = 4
        /\ events[p][1] = [attemptNumber |-> 1, retriesLeft |-> 3]
        /\ events[p][4] = [attemptNumber |-> 4, retriesLeft |-> 0]

\* C12: within one getFileList at most one remote request is pending, the
\* first request carries no page token, and each later request is issued
\* after the page before it was received and appended and carries the
\* nextPageToken of that page.
C12_OnePageAtATime ==
    \A p \in Calls :
        (op[p] = "getFileList" /\ result[p].kind # "undefined") =>
            /\ invoked[p] - failed[p] \in {0, 1}
            /\ (pc[p] = "inflight") => invoked[p] - failed[p] = 1
            /\ pc[p] \in {"failed", "backoff", "rejected"} =>
                   invoked[p] = failed[p]
            /\ fetched[p] = 0 => params[p] = NoToken
            /\ pc[p] # "resolved" =>
                   /\ params[p] = (IF fetched[p] = 0 THEN NoToken
                                   ELSE RemoteList(fetched[p] - 1).nextPageToken)
                   /\ data[p] = Pages(chain, fetched[p])
            /\ received[p] = data[p]

C12_Witness ==
    \E p \in Calls :
        /\ op[p] = "getFileList" /\ pc[p] = "inflight"
        /\ fetched[p] = 2 /\ params[p] = 2 /\ failed[p] = 2
        /\ data[p] = <<File(1, 1), File(1, 2), File(2, 1)>>

\* C13: the retries of a getFileList are counted per page: the attempts of
\* each page are numbered from 1 whatever the pages before it needed, and
\* the call rejects only when one page has itself failed on the first
\* attempt and on all 3 retries, so a listing none of whose pages fails that
\* often ends with all pages.
C13_BudgetPerPage ==
    \A p \in Calls :
        (op[p] = "getFileList" /\ result[p].kind # "undefined") =>
            /\ pc[p] \in {"inflight", "resolved"} =>
                   attemptNumber[p] = failed[p] + 1
            /\ pc[p] \in {"failed", "backoff", "rejected"} =>
                   attemptNumber[p] = failed[p]
            /\ failed[p] <= 4
            /\ pc[p] = "rejected" <=> (failed[p] = 4 /\ Len(events[p]) = 4)
            /\ requests[p] >= fetched[p] + failed[p]

C13_Witness ==
    \E p \in Calls :
        /\ op[p] = "getFileList" /\ full[p] /\ pc[p] = "resolved"
        /\ chain = <<2, 1>> /\ requests[p] = 8 /\ failed[p] = 3
        /\ result[p] = Value(<<File(1, 1), File(1, 2), File(2, 1)>>)

\* C14 as stated: a wrapped call that has used up its attempts rejects with
\* the error of its last failed attempt and returns no value.
C14_LastError ==
    \A p \in Calls :
        (Wrapped(p) /\ pc[p] = "rejected") =>
            /\ result[p].kind = "error" /\ result[p].value = <<>>
            /\ result[p].error = lastError[p]

\* C14 amended: a wrapped call that has used up its attempts returns no
\* value and rejects with the error of one of its failed attempts: the one
\* whose message occurred most often among them, and on a tie the one that
\* occurred last; this is the last attempt's error whenever no other
\* message occurred more often than its own.
C14_MostFrequentError ==
    \A p \in Calls :
        (Wrapped(p) /\ pc[p] = "rejected") =>
            LET es == errors[p]
                m == result[p].error
                Times(x) == Cardinality({i \in DOMAIN es : es[i] = x})
                Last(x) == CHOOSE i \in DOMAIN es :
                               es[i] = x /\ \A j \in DOMAIN es : es[j] = x => j <= i
            IN  /\ result[p].kind = "error" /\ result[p].value = <<>>
                /\ es[Len(es)] = lastError[p]
                /\ \E i \in DOMAIN es : es[i] = m
                /\ \A i \in DOMAIN es :
                       \/ Times(m) > Times(es[i])
                       \/ Times(m) = Times(es[i]) /\ Last(m) >= Last(es[i])
                /\ (\A i \in DOMAIN es : Times(lastError[p]) >= Times(es[i]))
                       => m = lastError[p]

C14_Witness ==
    \E p \in Calls :
        /\ op[p] = "downloadFile" /\ pc[p] = "rejected"
        /\ errors[p] = <<"ECONNRESET", "ECONNRESET", "ECONNRESET",
                         "rateLimitExceeded">>
        /\ result[p] = Thrown("ECONNRESET")

\* C15: an authorizeWithCode that is given the code calls getToken exactly
\* once and never again: when getToken fails the call rejects after that
\* one attempt and the step leaves the client's credentials as they were;
\* when it succeeds, the step that resolves the call has made the token it
\* returned the client's credentials.
C15_SingleExchange ==
    /\ [](\A p \in Calls :
            (op[p] = "authorizeWithCode" /\ result[p].error # "TypeError") =>
                /\ invoked[p] = 1 /\ requests[p] = 1
                /\ attemptNumber[p] = 0 /\ events[p] = <<>>
                /\ pc[p] \in {"inflight", "resolved", "rejected"}
                /\ pc[p] = "rejected" <=> failed[p] = 1
                /\ pc[p] = "rejected" =>
                       result[p] = Thrown("Error retrieving access token")
                /\ pc[p] = "resolved" => fetched[p] = 1 /\ bound)
    /\ [][\A p \in Calls :
            (op[p] = "authorizeWithCode" /\ pc[p] = "inflight") =>
                /\ pc'[p] = "rejected" =>
                       (oAuth2Client' = oAuth2Client /\ bound' = bound)
                /\ pc'[p] = "resolved" =>
                       /\ oAuth2Client'.credentials = Token(received'[p][1])
                       /\ result'[p] = Value(received'[p])
                /\ requests'[p] = requests[p]]_vars

C15_Witness ==
    \E p \in Calls :
        /\ op[p] = "authorizeWithCode" /\ pc[p] = "resolved"
        /\ _data.oAuth.token = Token(UndefinedDate)
        /\ oAuth2Client.credentials = Token(Skew + 1)
        /\ invoked[p] = 1

\* The authorization state of the driver: its clients, its configuration and
\* what checkAuthorizationStatus() returns.
AuthState == <<oAuth2Client, driveClient, _data, checkAuthorizationStatus>>

\* C16: no step of a getFileList or a downloadFile, whether it starts the
\* call unauthorized or authorized, retries, fails or returns, changes the
\* auth client and its credentials, the drive client, the configuration or
\* the value of checkAuthorizationStatus(); a step that changes one of them
\* is a step of authorizeWithCode or refreshToken.
C16_AuthStateFrame ==
    [][/\ \A p \in Calls :
             (op'[p] \in {"getFileList", "downloadFile"}
                 /\ <<op[p], pc[p], invoked[p], fetched[p]>>
                        # <<op'[p], pc'[p], invoked'[p], fetched'[p]>>) =>
                 AuthState' = AuthState
       /\ AuthState' # AuthState =>
             \E p \in Calls :
                 /\ op'[p] \in {"authorizeWithCode", "refreshToken"}
                 /\ pc'[p] # pc[p]]_vars

C16_Witness ==
    \E p \in Calls :
        /\ op[p] = "getFileList" /\ pc[p] = "rejected"
        /\ _data.oAuth.token = Token(Skew + 1)
        /\ oAuth2Client = setCredentials(NewOAuth2, _data.oAuth.token)
        /\ driveClient = "auth_client" /\ ~bound

\* C17: a getFileList on an authorized driver whose every request is
\* answered ends, resolved or rejected, after at most 4 requests (the first
\* attempt and 3 retries) for each page of the remote chain; it fetches no
\* page twice, and once the page without nextPageToken has arrived it
\* issues no further request.
C17_ListingTerminates ==
    /\ [](\A p \in Calls : op[p] = "getFileList" =>
            /\ requests[p] <= 4 * Len(chain)
            /\ fetched[p] <= Len(chain)
            /\ fetched[p] = Len(chain) => pc[p] = "resolved")
    /\ [][\A p \in Calls :
            (op[p] = "getFileList" /\ fetched[p] = Len(chain)) =>
                requests'[p] <= requests[p]]_vars
    /\ \A p \in Calls :
           (op[p] = "getFileList") ~> (pc[p] \in {"resolved", "rejected"})

C17_Witness ==
    \E p \in Calls :
        /\ op[p] = "getFileList" /\ pc[p] = "rejected"
        /\ Len(chain) = 2 /\ fetched[p] = 1 /\ requests[p] = 8

\* C18: refreshToken takes no lock: of two refreshToken calls that overlap
\* on one driver and both find the token inside the 600000 ms window (or
\* without expiry date), neither is held back by the other: each has called
\* refreshAccessToken once, so two refreshes can be in flight together.
C18_NoRefreshLock ==
    \A p, q \in Calls :
        (/\ p # q
         /\ op[p] = "refreshToken" /\ result[p].error # "TypeError"
         /\ op[q] = "refreshToken" /\ result[q].error # "TypeError"
         /\ ~(expiry_date[p] # UndefinedDate
                 /\ now[p] + 600000 < expiry_date[p])
         /\ ~(expiry_date[q] # UndefinedDate
                 /\ now[q] + 600000 < expiry_date[q])) =>
            /\ invoked[p] = 1 /\ invoked[q] = 1
            /\ pc[p] \in {"inflight", "resolved", "rejected"}
            /\ pc[q] \in {"inflight", "resolved", "rejected"}

C18_Witness ==
    /\ \A p \in Calls :
          /\ op[p] = "refreshToken" /\ pc[p] = "inflight"
          /\ expiry_date[p] = Skew + 1 /\ now[p] >= 1
          /\ invoked[p] = 1
    /\ oAuth2Client.credentials = Token(Skew + 1)

\* C19 as stated: whenever checkAuthorizationStatus() is true, the drive
\* client was built with the driver's current auth client, not with none.
C19_DriveClientBound ==
    checkAuthorizationStatus => driveClient = "auth_client"

\* C20: two getFileList calls interleaved on one authorized driver do not
\* interfere: at every point each call holds exactly the pages answered to
\* its own requests, in order, its next request carries the nextPageToken
\* of its own last page, and what it returns is the concatenation of its
\* own pages, whatever the other call has fetched so far.
C20_ListingsIndependent ==
    \A p \in Calls : op[p] = "getFileList" =>
        /\ data[p] = received[p]
        /\ data[p] = Pages(chain, fetched[p])
        /\ pc[p] # "resolved" =>
               params[p] = (IF fetched[p] = 0 THEN NoToken
                            ELSE RemoteList(fetched[p] - 1).nextPageToken)
        /\ pc[p] = "resolved" =>
               result[p] = Value(Pages(chain, IF full[p] THEN Len(chain) ELSE 1))

C20_Witness ==
    /\ chain = <<2, 1>>
    /\ op["a"] = "getFileList" /\ full["a"] /\ pc["a"] = "inflight"
    /\ fetched["a"] = 1 /\ params["a"] = 1
    /\ op["b"] = "getFileList" /\ full["b"] /\ pc["b"] = "resolved"
    /\ result["b"] = Value(<<File(1, 1), File(1, 2), File(2, 1)>>)
    /\ requests["b"] > requests["a"]
====
